---- MODULE Spec2Model ----
(***************************************************************************)
(* Model of the Treehouse inbox bot (src/bot.py): a Telegram bot that      *)
(* records the users it sees in a `users` table, relays private messages   *)
(* into an admin chat, remembers in `admin_map` which admin-chat message   *)
(* came from which user, and relays the admin's replies back.              *)
(*                                                                         *)
(* One action per handler registered in main().  A handler runs to         *)
(* completion before the next update is processed (the application is      *)
(* built without concurrent updates), so an action is a whole handler.     *)
(* Every storage call and every call to the Telegram client may be         *)
(* rejected; the rejected call is an input of the action.  The calls a     *)
(* handler made, in order, are kept in `out` until the next update.        *)
(*                                                                         *)
(* Spec is the bot handling updates.  SpecCsv exports tables whose names   *)
(* hold the characters the csv writer quotes; SpecMap applies              *)
(* map_admin_msg to arbitrary message and user identifiers.                *)
(***************************************************************************)
EXTENDS Integers, Sequences, FiniteSets, TLC

\* ---- bounds --------------------------------------------------------------
MaxUser == 1       \* user identifiers are 0..MaxUser
MaxClock == 2      \* number of updates handled in one run
MaxMsgId == 3      \* message identifiers of the admin chat are 1..MaxMsgId
MaxMapCalls == 3   \* number of map_admin_msg calls applied one after another

\* ---- values --------------------------------------------------------------
None == -9             \* Python None where an integer is expected
NoneStr == "<None>"    \* Python None where a string is expected
NoReply == 0           \* update.message.reply_to_message is None
GroupChat == -1        \* a group chat (Telegram group ids are negative)
SuperscriptTwo == "U+00B2"   \* the one-character string "²"

UserIds == 0..MaxUser
MsgIds == 1..MaxMsgId
ChatIds == UserIds \cup {GroupChat}    \* a private chat has its user's id

\* what the platform reports about a sender (username, first and last name)
Profiles ==
    { [username |-> NoneStr, first_name |-> "Al", last_name |-> NoneStr],
      [username |-> "al",    first_name |-> "",   last_name |-> "Lee"] }

DefaultProfile == [username |-> NoneStr, first_name |-> "Al", last_name |-> NoneStr]

User(i, p) ==
    [id |-> i, username |-> p.username, first_name |-> p.first_name,
     last_name |-> p.last_name]

NoUser == User(None, DefaultProfile)   \* update.effective_user is None

VARIABLES
    ADMIN_CHAT_ID,        \* configuration, read once at import
    ADMIN_USER_IDS_RAW,   \* the parts of the ADMIN_USER_IDS setting
    users,                \* table users: a set of rows
    admin_map,            \* table admin_map: a set of rows
    now,                  \* the clock read by now_utc_iso()
    next_msg_id,          \* next message identifier of the admin chat
    handler,              \* the handler that ran for the last update
    upd,                  \* the last update
    out,                  \* the calls that handler made, in order
    raised,               \* an exception left that handler
    document,             \* the bytes that handler passed to reply_document
    upsert_calls,         \* history: first and last completed upsert_user
    map_calls             \* history: the users passed to map_admin_msg, per message

config == <<ADMIN_CHAT_ID, ADMIN_USER_IDS_RAW>>
tables == <<users, admin_map>>
vars == <<ADMIN_CHAT_ID, ADMIN_USER_IDS_RAW, users, admin_map, now,
          next_msg_id, handler, upd, out, raised, document, upsert_calls,
          map_calls>>

\* ---- strings -------------------------------------------------------------
\* the decimal literals of 0..9
Decimal == <<"0", "1", "2", "3", "4", "5", "6", "7", "8", "9">>

IsDecimal(s) == \E k \in DOMAIN Decimal : Decimal[k] = s

\* str.isdigit(): every character is a digit; true of "²" as well, false of
\* a sign
isdigit(s) == IsDecimal(s) \/ s = SuperscriptTwo

\* int(s) returns for a signed decimal literal and raises ValueError otherwise
int_ok(s) == IsDecimal(s) \/ s = "-1"
int(s) == IF s = "-1" THEN -1 ELSE (CHOOSE k \in DOMAIN Decimal : Decimal[k] = s) - 1

\* `x or ""`
OrEmpty(s) == IF s = NoneStr \/ s = "" THEN "" ELSE s

\* ---- configuration -------------------------------------------------------
ADMIN_USER_IDS ==
    { int(ADMIN_USER_IDS_RAW[k]) :
        k \in { j \in DOMAIN ADMIN_USER_IDS_RAW : isdigit(ADMIN_USER_IDS_RAW[j]) } }

\* ---- updates -------------------------------------------------------------
ChatType(c) == IF c >= 0 THEN "private" ELSE "group"

Update(cmd, u, c, m, r, a) ==
    [cmd |-> cmd, user |-> u, chat |-> c, msg |-> m, reply_to |-> r, args |-> a]

NoUpdate == Update("none", NoUser, None, FALSE, NoReply, <<>>)

\* a sender writes in the private chat with the bot or in the group
ChatsOf(u) == {u.id, GroupChat}

\* message identifiers an update in chat c can reply to
ReplyTargets(c) ==
    IF c = ADMIN_CHAT_ID THEN 0..(next_msg_id - 1) ELSE {NoReply}

\* ---- calls ---------------------------------------------------------------
Eff(op, to, text, ref, mid) ==
    [op |-> op, to |-> to, text |-> text, ref |-> ref, mid |-> mid, ok |-> TRUE]

\* the calls of a straight-line handler when its failAt-th call is rejected
\* (0: none is); the exception of the rejected call ends the handler
Failed(script, failAt) == failAt \in 1..Len(script)

Run(script, failAt) ==
    LET n == IF Failed(script, failAt) THEN failAt ELSE Len(script)
    IN [i \in 1..n |-> [script[i] EXCEPT !.ok = (i # failAt)]]

Done(i, failAt) == failAt = 0 \/ failAt > i

Result(o, r, us, am, nx, uc) ==
    [out |-> o, raised |-> r, users |-> us, admin_map |-> am,
     next_msg_id |-> nx, upsert_calls |-> uc,
     document |-> <<>>, map_calls |-> map_calls]

NoChange(o, r) == Result(o, r, users, admin_map, next_msg_id, upsert_calls)

\* ---- storage -------------------------------------------------------------
now_utc_iso == now

\* INSERT OR REPLACE instead of ON CONFLICT DO UPDATE: the stored row is
\* replaced whole, first_seen_utc included
upsert_user_replace(rows, u, t) ==
    {r \in rows : r.user_id # u.id}
        \cup {[user_id |-> u.id,
                username |-> OrEmpty(u.username),
                first_name |-> OrEmpty(u.first_name),
                last_name |-> OrEmpty(u.last_name),
                first_seen_utc |-> t, last_seen_utc |-> t]}

\* an upsert whose transaction is never committed
upsert_user_uncommitted(rows, u, t) == rows

\* ON CONFLICT sets first_seen_utc in place of last_seen_utc
upsert_user_first_seen(rows, u, t) ==
    LET excluded == [user_id |-> u.id,
                     username |-> OrEmpty(u.username),
                     first_name |-> OrEmpty(u.first_name),
                     last_name |-> OrEmpty(u.last_name),
                     first_seen_utc |-> t, last_seen_utc |-> t]
        conflict == {r \in rows : r.user_id = u.id}
    IN IF conflict = {} THEN rows \cup {excluded}
       ELSE (rows \ conflict) \cup
            { [r EXCEPT !.username = excluded.username,
                        !.first_name = excluded.first_name,
                        !.last_name = excluded.last_name,
                        !.first_seen_utc = excluded.first_seen_utc] : r \in conflict }

upsert_user(rows, u, t) ==
    LET excluded == [user_id |-> u.id,
                     username |-> OrEmpty(u.username),
                     first_name |-> OrEmpty(u.first_name),
                     last_name |-> OrEmpty(u.last_name),
                     first_seen_utc |-> t, last_seen_utc |-> t]
        conflict == {r \in rows : r.user_id = u.id}
    IN IF conflict = {} THEN rows \cup {excluded}
       ELSE (rows \ conflict) \cup
            { [r EXCEPT !.username = excluded.username,
                        !.first_name = excluded.first_name,
                        !.last_name = excluded.last_name,
                        !.last_seen_utc = excluded.last_seen_utc] : r \in conflict }

\* the two bound parameters in the wrong order
map_admin_msg_swapped(rows, admin_msg_id, user_id, t) ==
    {r \in rows : r.admin_msg_id # user_id}
        \cup {[admin_msg_id |-> user_id, user_id |-> admin_msg_id, created_utc |-> t]}

\* INSERT OR IGNORE in place of INSERT OR REPLACE
map_admin_msg_ignore(rows, admin_msg_id, user_id, t) ==
    IF \E r \in rows : r.admin_msg_id = admin_msg_id THEN rows
    ELSE rows \cup {[admin_msg_id |-> admin_msg_id, user_id |-> user_id,
                     created_utc |-> t]}

map_admin_msg(rows, admin_msg_id, user_id, t) ==
    {r \in rows : r.admin_msg_id # admin_msg_id}
        \cup {[admin_msg_id |-> admin_msg_id, user_id |-> user_id, created_utc |-> t]}

\* the SELECT without its WHERE clause
get_user_for_admin_reply_any(reply_to_admin_msg_id) ==
    IF admin_map = {} THEN None ELSE (CHOOSE r \in admin_map : TRUE).user_id

get_user_for_admin_reply(reply_to_admin_msg_id) ==
    LET found == {r \in admin_map : r.admin_msg_id = reply_to_admin_msg_id}
    IN IF found = {} THEN None ELSE (CHOOSE r \in found : TRUE).user_id

\* history of the completed upsert_user calls
NoCalls == [i \in UserIds |-> [first_t |-> None, last_t |-> None, last |-> NoUser]]

RecordCall(uc, u, t) ==
    [uc EXCEPT ![u.id] = [first_t |-> IF @.first_t = None THEN t ELSE @.first_t,
                          last_t |-> t, last |-> u]]

\* history of the completed map_admin_msg calls
NoMapCalls == [m \in MsgIds |-> <<>>]

RecordMapCall(mc, admin_msg_id, user_id) ==
    [mc EXCEPT ![admin_msg_id] = Append(@, user_id)]

\* ---- access control ------------------------------------------------------
\* the admin chat admits everybody even when an allow-list is configured
is_admin_either(u) ==
    IF u.user = NoUser THEN FALSE
    ELSE (u.chat # None /\ u.chat = ADMIN_CHAT_ID) \/ u.user.id \in ADMIN_USER_IDS

is_admin(u) ==
    IF u.user = NoUser THEN FALSE
    ELSE IF ADMIN_USER_IDS = {} THEN u.chat # None /\ u.chat = ADMIN_CHAT_ID
    ELSE u.user.id \in ADMIN_USER_IDS

\* ---- handlers ------------------------------------------------------------
\* a start that also tells the admin chat about the user
start_notifying(u, failAt) ==
    LET up == IF u.user # NoUser
              THEN <<Eff("upsert_user", None, "", u.user.id, None)>> ELSE <<>>
        tell == <<Eff("send_message", ADMIN_CHAT_ID, "new_user", None, None)>>
        re == IF u.msg THEN <<Eff("reply_text", u.chat, "welcome", None, None)>> ELSE <<>>
        script == up \o tell \o re
        stored == u.user # NoUser /\ Done(1, failAt)
    IN Result(Run(script, failAt), Failed(script, failAt) \/ ~u.msg,
              IF stored THEN upsert_user(users, u.user, now_utc_iso) ELSE users,
              admin_map, next_msg_id,
              IF stored THEN RecordCall(upsert_calls, u.user, now_utc_iso)
              ELSE upsert_calls)

start(u, failAt) ==
    LET up == IF u.user # NoUser
              THEN <<Eff("upsert_user", None, "", u.user.id, None)>> ELSE <<>>
        \* update.message.reply_text raises AttributeError without a message
        re == IF u.msg THEN <<Eff("reply_text", u.chat, "welcome", None, None)>> ELSE <<>>
        script == up \o re
        stored == u.user # NoUser /\ Done(1, failAt)
    IN Result(Run(script, failAt), Failed(script, failAt) \/ ~u.msg,
              IF stored THEN upsert_user(users, u.user, now_utc_iso) ELSE users,
              admin_map, next_msg_id,
              IF stored THEN RecordCall(upsert_calls, u.user, now_utc_iso)
              ELSE upsert_calls)

\* a help that records its sender like start does
help_cmd_recording(u, failAt) ==
    LET script == IF u.msg THEN <<Eff("reply_text", u.chat, "help", None, None)>> ELSE <<>>
    IN Result(Run(script, failAt), Failed(script, failAt) \/ ~u.msg,
              upsert_user(users, u.user, now_utc_iso), admin_map, next_msg_id,
              upsert_calls)

help_cmd(u, failAt) ==
    LET script == IF u.msg THEN <<Eff("reply_text", u.chat, "help", None, None)>> ELSE <<>>
    IN NoChange(Run(script, failAt), Failed(script, failAt) \/ ~u.msg)

user_message_to_admin(u, failAt) ==
    IF ~u.msg THEN NoChange(<<>>, FALSE)
    ELSE IF u.chat = None \/ ChatType(u.chat) # "private" THEN NoChange(<<>>, FALSE)
    ELSE IF u.user = NoUser THEN NoChange(<<>>, FALSE)
    ELSE
    LET header_msg == next_msg_id
        fwd == next_msg_id + 1
        t == now_utc_iso
        script ==
            << Eff("upsert_user", None, "", u.user.id, None),
               Eff("send_message", ADMIN_CHAT_ID, "header", u.user.id, header_msg),
               Eff("map_admin_msg", None, "", u.user.id, header_msg),
               Eff("forward_message", ADMIN_CHAT_ID, "forward", u.chat, fwd),
               Eff("map_admin_msg", None, "", u.user.id, fwd),
               Eff("reply_text", u.chat, "ack", None, None) >>
        am1 == IF Done(3, failAt)
               THEN map_admin_msg(admin_map, header_msg, u.user.id, t) ELSE admin_map
        am2 == IF Done(5, failAt) THEN map_admin_msg(am1, fwd, u.user.id, t) ELSE am1
        mc1 == IF Done(3, failAt)
               THEN RecordMapCall(map_calls, header_msg, u.user.id) ELSE map_calls
        mc2 == IF Done(5, failAt) THEN RecordMapCall(mc1, fwd, u.user.id) ELSE mc1
    IN [Result(Run(script, failAt), failAt # 0,
               IF Done(1, failAt) THEN upsert_user(users, u.user, t) ELSE users,
               am2,
               next_msg_id + (IF Done(2, failAt) THEN 1 ELSE 0)
                           + (IF Done(4, failAt) THEN 1 ELSE 0),
               IF Done(1, failAt) THEN RecordCall(upsert_calls, u.user, t)
               ELSE upsert_calls)
          EXCEPT !.map_calls = mc2]

\* ---- USER -> ADMIN is above; ADMIN -> USER (reply relay) ------------------
admin_reply_relay(u, failAt, exceptFails) ==
    IF ~u.msg \/ u.reply_to = NoReply THEN NoChange(<<>>, FALSE)
    ELSE IF u.chat = None \/ u.chat # ADMIN_CHAT_ID THEN NoChange(<<>>, FALSE)
    ELSE IF ~is_admin(u) THEN NoChange(<<>>, FALSE)
    ELSE
    LET replied_id == u.reply_to
        user_id == get_user_for_admin_reply(replied_id)
        lookup == Eff("get_user_for_admin_reply", None, "", None, replied_id)
        miss == Eff("reply_text", u.chat, "miss", None, None)
        copy == Eff("copy_message", user_id, "copy", ADMIN_CHAT_ID, None)
        notice == Eff("reply_text", u.chat, "copy_failed", None, None)
    IN IF failAt = 1 THEN NoChange(Run(<<lookup>>, 1), TRUE)
       \* `if not user_id`: None and 0 are both falsy
       ELSE IF user_id = None \/ user_id = 0
            THEN NoChange(Run(<<lookup, miss>>, failAt), failAt # 0)
       ELSE IF failAt = 0 THEN NoChange(<<lookup, copy>>, FALSE)
       \* the rejected copy is caught; the notice is sent outside any try
       ELSE NoChange(<<lookup, [copy EXCEPT !.ok = FALSE],
                       [notice EXCEPT !.ok = ~exceptFails]>>, exceptFails)

RECURSIVE join(_)
join(a) ==
    IF Len(a) = 0 THEN ""
    ELSE IF Len(a) = 1 THEN a[1]
    ELSE a[1] \o " " \o join(Tail(a))

\* update.message.reply_text(text) and nothing else
ReplyText(u, text, failAt) ==
    LET script == <<Eff("reply_text", u.chat, text, None, None)>>
    IN IF u.msg THEN NoChange(Run(script, failAt), Failed(script, failAt))
       ELSE NoChange(<<>>, TRUE)

reply_cmd(u, failAt, exceptFails) ==
    IF u.chat = None \/ u.chat # ADMIN_CHAT_ID THEN NoChange(<<>>, FALSE)
    ELSE IF ~is_admin(u) THEN ReplyText(u, "admin_only", failAt)
    ELSE IF ~u.msg THEN NoChange(<<>>, FALSE)
    ELSE IF Len(u.args) < 2
         THEN ReplyText(u, "usage", failAt)
    ELSE IF ~isdigit(u.args[1])
         THEN ReplyText(u, "numeric", failAt)
    \* int(user_id_str) is outside the try block
    ELSE IF ~int_ok(u.args[1]) THEN NoChange(<<>>, TRUE)
    ELSE
    LET user_id == int(u.args[1])
        msg == join(Tail(u.args))
        send == Eff("send_message", user_id, msg, None, None)
        sent == Eff("reply_text", u.chat, "sent", None, None)
        failed == [Eff("reply_text", u.chat, "failed", None, None)
                     EXCEPT !.ok = ~exceptFails]
    IN IF failAt = 0 THEN NoChange(<<send, sent>>, FALSE)
       ELSE IF failAt = 1
            THEN NoChange(<<[send EXCEPT !.ok = FALSE], failed>>, exceptFails)
       ELSE NoChange(<<send, [sent EXCEPT !.ok = FALSE], failed>>, exceptFails)

\* the is_admin check left out
users_cmd_unchecked(u, failAt) ==
    IF u.chat = None \/ u.chat # ADMIN_CHAT_ID THEN NoChange(<<>>, FALSE)
    ELSE
    LET total == Cardinality(users)
        script == <<Eff("select_users", None, "", total, None)>>
                  \o (IF u.msg
                      THEN <<Eff("reply_text", u.chat, "users_list", total, None)>>
                      ELSE <<>>)
    IN NoChange(Run(script, failAt), Failed(script, failAt) \/ ~u.msg)

users_cmd(u, failAt) ==
    IF u.chat = None \/ u.chat # ADMIN_CHAT_ID THEN NoChange(<<>>, FALSE)
    ELSE IF ~is_admin(u) THEN ReplyText(u, "admin_only", failAt)
    ELSE
    LET total == Cardinality(users)
        script == <<Eff("select_users", None, "", total, None)>>
                  \o (IF u.msg
                      THEN <<Eff("reply_text", u.chat, "users_list", total, None)>>
                      ELSE <<>>)
    IN NoChange(Run(script, failAt), Failed(script, failAt) \/ ~u.msg)

\* ---- export format -------------------------------------------------------
\* the characters of a string
Chars(s) ==
    CASE s = "" -> <<>>
      [] s = "Al" -> <<"A", "l">>
      [] s = "al" -> <<"a", "l">>
      [] s = "Lee" -> <<"L", "e", "e">>
      [] s = "a,b" -> <<"a", ",", "b">>
      [] s = "\"q\"" -> <<"\"", "q", "\"">>
      [] s = "x\ny" -> <<"x", "\n", "y">>
      [] s = "\r" -> <<"\r">>
      [] s = "user_id" -> <<"u", "s", "e", "r", "_", "i", "d">>
      [] s = "username" -> <<"u", "s", "e", "r", "n", "a", "m", "e">>
      [] s = "first_name" -> <<"f", "i", "r", "s", "t", "_", "n", "a", "m", "e">>
      [] s = "last_name" -> <<"l", "a", "s", "t", "_", "n", "a", "m", "e">>
      [] s = "first_seen_utc" -> <<"f", "i", "r", "s", "t", "_", "s", "e", "e", "n", "_", "u", "t", "c">>
      [] s = "last_seen_utc" -> <<"l", "a", "s", "t", "_", "s", "e", "e", "n", "_", "u", "t", "c">>
      [] s = "first_seen" -> <<"f", "i", "r", "s", "t", "_", "s", "e", "e", "n">>
      [] s = "last_seen" -> <<"l", "a", "s", "t", "_", "s", "e", "e", "n">>

\* str() of a user identifier
str(i) == <<Decimal[i + 1]>>

\* the text of a timestamp of now_utc_iso(): it holds no comma, quote or
\* line break, and later timestamps compare greater as text
isoformat(t) == <<"T", Decimal[t + 3]>>

\* names with the characters the csv writer quotes
CsvProfiles ==
    { [username |-> "a,b", first_name |-> "Al",      last_name |-> ""],
      [username |-> "al",  first_name |-> "\"q\"", last_name |-> "Lee"],
      [username |-> "",    first_name |-> "\r",     last_name |-> "x\ny"] }

\* ORDER BY first_seen_utc DESC
OrderByFirstSeen_desc(rows) ==
    LET Desc[rs \in SUBSET rows] ==
            IF rs = {} THEN <<>>
            ELSE LET r == CHOOSE x \in rs :
                              \A y \in rs : x.first_seen_utc >= y.first_seen_utc
                 IN <<r>> \o Desc[rs \ {r}]
    IN Desc[rows]

\* SELECT .. FROM users ORDER BY first_seen_utc ASC; the order of rows first
\* seen at the same time is left to the database
OrderByFirstSeen(rows) ==
    LET Asc[rs \in SUBSET rows] ==
            IF rs = {} THEN <<>>
            ELSE LET r == CHOOSE x \in rs :
                              \A y \in rs : x.first_seen_utc <= y.first_seen_utc
                 IN <<r>> \o Asc[rs \ {r}]
    IN Asc[rows]

\* the cells of a selected row as the writer converts them
Cells(r) ==
    <<str(r.user_id), Chars(r.username), Chars(r.first_name),
      Chars(r.last_name), isoformat(r.first_seen_utc), isoformat(r.last_seen_utc)>>

HeaderRow ==
    <<Chars("user_id"), Chars("username"), Chars("first_name"),
      Chars("last_name"), Chars("first_seen_utc"), Chars("last_seen_utc")>>

\* csv.writer, default dialect: a cell with the delimiter, the quote
\* character or a character of the line terminator is quoted, its quotes
\* doubled
Special == {",", "\"", "\r", "\n"}

doublequote(f) ==
    LET D[k \in 0..Len(f)] ==
            IF k = 0 THEN <<>>
            ELSE D[k - 1] \o (IF f[k] = "\"" THEN <<"\"", "\"">> ELSE <<f[k]>>)
    IN D[Len(f)]

\* a writer that never quotes
csv_field_unquoted(f) == f

csv_field(f) ==
    IF \E k \in DOMAIN f : f[k] \in Special
    THEN <<"\"">> \o doublequote(f) \o <<"\"">>
    ELSE f

writerow(cells) ==
    LET J[k \in 0..Len(cells)] ==
            IF k = 0 THEN <<>>
            ELSE (IF k = 1 THEN <<>> ELSE J[k - 1] \o <<",">>) \o csv_field(cells[k])
    IN J[Len(cells)] \o <<"\r", "\n">>

writerows(rows) ==
    LET W[k \in 0..Len(rows)] ==
            IF k = 0 THEN <<>> ELSE W[k - 1] \o writerow(rows[k])
    IN W[Len(rows)]

\* buf.getvalue(): the header row, then the selected rows
ExportData(selected) ==
    writerow(HeaderRow) \o writerows([k \in DOMAIN selected |-> Cells(selected[k])])

export_users_cmd(u, failAt) ==
    IF u.chat = None \/ u.chat # ADMIN_CHAT_ID THEN NoChange(<<>>, FALSE)
    ELSE IF ~is_admin(u) THEN ReplyText(u, "admin_only", failAt)
    ELSE
    LET script == <<Eff("select_users", None, "", Cardinality(users), None)>>
                  \o (IF u.msg
                      THEN <<Eff("reply_document", u.chat, "users_export",
                                 Cardinality(users), None)>>
                      ELSE <<>>)
        data == IF Done(1, failAt) /\ u.msg
                THEN ExportData(OrderByFirstSeen(users)) ELSE <<>>
    IN [NoChange(Run(script, failAt), Failed(script, failAt) \/ ~u.msg)
          EXCEPT !.document = data]

\* ---- dispatch ------------------------------------------------------------
Commands == {"start", "help", "reply", "users", "export_users"}

HandlerOf(cmd) ==
    CASE cmd = "start" -> "start"
      [] cmd = "help" -> "help_cmd"
      [] cmd = "reply" -> "reply_cmd"
      [] cmd = "users" -> "users_cmd"
      [] cmd = "export_users" -> "export_users_cmd"

\* the two message handlers registered in the other order
Dispatch_private_first(u) ==
    IF u.cmd \in Commands THEN HandlerOf(u.cmd)
    ELSE IF ChatType(u.chat) = "private" /\ u.cmd = "none" THEN "user_message_to_admin"
    ELSE IF u.chat = ADMIN_CHAT_ID /\ u.reply_to # NoReply THEN "admin_reply_relay"
    ELSE "none"

\* main(): the first handler whose filter matches gets the update
Dispatch(u) ==
    IF u.cmd \in Commands THEN HandlerOf(u.cmd)
    ELSE IF u.chat = ADMIN_CHAT_ID /\ u.reply_to # NoReply THEN "admin_reply_relay"
    ELSE IF ChatType(u.chat) = "private" /\ u.cmd = "none" THEN "user_message_to_admin"
    ELSE "none"

\* ---- the state machine ---------------------------------------------------
Init ==
    /\ ADMIN_CHAT_ID \in {1, GroupChat}
    /\ ADMIN_USER_IDS_RAW \in {<<>>, <<"1", "x">>}
    /\ users = {}
    /\ admin_map = {}
    /\ now = 0
    \* the admin chat holds one message that the bot did not relay
    /\ next_msg_id = 2
    /\ handler = "none"
    /\ upd = NoUpdate
    /\ out = <<>>
    /\ raised = FALSE
    /\ document = <<>>
    /\ upsert_calls = NoCalls
    /\ map_calls = NoMapCalls

\* a chosen rejection is one of a call the handler makes
Rejects(res, failAt, exceptFails) ==
    /\ failAt # 0 => \E i \in DOMAIN res.out : ~res.out[i].ok
    /\ exceptFails => res.raised /\ Len(res.out) > 0 /\ ~res.out[Len(res.out)].ok

Handle(h, u, res) ==
    /\ Dispatch(u) = h
    /\ now' = now + 1
    /\ handler' = h
    /\ upd' = u
    /\ out' = res.out
    /\ raised' = res.raised
    /\ users' = res.users
    /\ admin_map' = res.admin_map
    /\ next_msg_id' = res.next_msg_id
    /\ document' = res.document
    /\ upsert_calls' = res.upsert_calls
    /\ map_calls' = res.map_calls
    /\ UNCHANGED config

\* updates without a message (edited messages) are given to the handlers
\* that test for one; the names of a sender vary where they are stored
Senders == {User(i, DefaultProfile) : i \in UserIds}
ProfiledSenders == {User(i, p) : i \in UserIds, p \in Profiles}

\* the argument lists of /reply; they vary where reply_cmd reads them
ArgLists ==
    { <<"1">>, <<"-1", "hi">>, <<SuperscriptTwo, "hi">>, <<"1", "hi", "yo">> }

Start ==
    /\ now < MaxClock
    /\ \E s \in ProfiledSenders, m \in {TRUE}, failAt \in 0..2 :
      \E c \in ChatsOf(s) :
        LET u == Update("start", s, c, m, NoReply, <<>>)
        IN \E res \in {start(u, failAt)} :
           /\ Rejects(res, failAt, FALSE)
           /\ Handle("start", u, res)

Help ==
    /\ now < MaxClock
    /\ \E s \in Senders, m \in {TRUE}, failAt \in 0..1 :
      \E c \in ChatsOf(s) :
        LET u == Update("help", s, c, m, NoReply, <<>>)
        IN \E res \in {help_cmd(u, failAt)} :
           /\ Rejects(res, failAt, FALSE)
           /\ Handle("help_cmd", u, res)

UserMessageToAdmin ==
    /\ now < MaxClock
    /\ \E s \in Senders, m \in BOOLEAN, failAt \in 0..6 :
      \E r \in ReplyTargets(s.id) :
        LET u == Update("none", s, s.id, m, r, <<>>)
        IN /\ next_msg_id + 1 <= MaxMsgId
           /\ Dispatch(u) = "user_message_to_admin"
           /\ \E res \in {user_message_to_admin(u, failAt)} :
                 /\ Rejects(res, failAt, FALSE)
                 /\ Handle("user_message_to_admin", u, res)

AdminReplyRelay ==
    /\ now < MaxClock
    /\ \E s \in Senders, m \in BOOLEAN, failAt \in 0..2, exceptFails \in BOOLEAN :
      \E r \in ReplyTargets(ADMIN_CHAT_ID) \ {NoReply}, cmd \in {"none", "other"} :
        LET u == Update(cmd, s, ADMIN_CHAT_ID, m, r, <<>>)
        IN /\ ADMIN_CHAT_ID \in ChatsOf(s)
           /\ cmd = "other" => m /\ failAt = 0
           /\ \E res \in {admin_reply_relay(u, failAt, exceptFails)} :
                 /\ Rejects(res, failAt, exceptFails)
                 /\ Handle("admin_reply_relay", u, res)

ReplyCmd ==
    /\ now < MaxClock
    /\ \E s \in Senders, m \in BOOLEAN, failAt \in 0..2, exceptFails \in BOOLEAN :
      \E c \in ChatsOf(s), a \in ArgLists :
        LET u == Update("reply", s, c, m, NoReply, a)
        IN /\ (c # ADMIN_CHAT_ID \/ ~m) => a = <<"1">>
           /\ \E res \in {reply_cmd(u, failAt, exceptFails)} :
                 /\ Rejects(res, failAt, exceptFails)
                 /\ Handle("reply_cmd", u, res)

UsersCmd ==
    /\ now < MaxClock
    /\ \E s \in Senders, m \in {TRUE}, failAt \in 0..2 :
      \E c \in ChatsOf(s) :
        LET u == Update("users", s, c, m, NoReply, <<>>)
        IN \E res \in {users_cmd(u, failAt)} :
           /\ Rejects(res, failAt, FALSE)
           /\ Handle("users_cmd", u, res)

ExportUsersCmd ==
    /\ now < MaxClock
    /\ \E s \in Senders, m \in {TRUE}, failAt \in 0..2 :
      \E c \in ChatsOf(s) :
        LET u == Update("export_users", s, c, m, NoReply, <<>>)
        IN \E res \in {export_users_cmd(u, failAt)} :
           /\ Rejects(res, failAt, FALSE)
           /\ Handle("export_users_cmd", u, res)

\* an update that no registered handler matches: a command the bot does not
\* know, or a message in a group that is not a reply in the admin chat
Unhandled ==
    /\ now < MaxClock
    /\ \E s \in Senders, cmd \in {"none", "other"} :
      \E c \in ChatsOf(s) :
        LET u == Update(cmd, s, c, TRUE, NoReply, <<>>)
        IN Handle("none", u, NoChange(<<>>, FALSE))

Next ==
    \/ Unhandled
    \/ Start
    \/ Help
    \/ UserMessageToAdmin
    \/ AdminReplyRelay
    \/ ReplyCmd
    \/ UsersCmd
    \/ ExportUsersCmd

Spec == Init /\ [][Next]_vars

\* ---- exporting a stored table -------------------------------------------
\* The tables are kept in the file at DB_PATH, so a run of the bot starts with
\* the rows earlier runs wrote; here two upsert_user calls of earlier runs,
\* with names that hold the characters the csv writer quotes.
CsvSenders == {User(i, p) : i \in UserIds, p \in CsvProfiles}

InitCsv ==
    /\ ADMIN_CHAT_ID \in {1, GroupChat}
    /\ ADMIN_USER_IDS_RAW \in {<<>>, <<"1", "x">>}
    /\ \E s1 \in CsvSenders, s2 \in CsvSenders :
          /\ users = upsert_user(upsert_user({}, s1, -2), s2, -1)
          /\ upsert_calls = RecordCall(RecordCall(NoCalls, s1, -2), s2, -1)
    /\ admin_map = {}
    /\ now = 0
    /\ next_msg_id = 2
    /\ handler = "none"
    /\ upd = NoUpdate
    /\ out = <<>>
    /\ raised = FALSE
    /\ document = <<>>
    /\ map_calls = NoMapCalls

NextCsv == ExportUsersCmd

SpecCsv == InitCsv /\ [][NextCsv]_vars

\* ---- the relay map on its own ---------------------------------------------
\* map_admin_msg applied to any message and user identifiers, one call after
\* another
MapAdminMsg ==
    /\ now < MaxMapCalls
    /\ \E m \in MsgIds, i \in UserIds :
          /\ admin_map' = map_admin_msg(admin_map, m, i, now_utc_iso)
          /\ map_calls' = RecordMapCall(map_calls, m, i)
    /\ now' = now + 1
    /\ UNCHANGED <<config, users, next_msg_id, handler, upd, out, raised,
                   document, upsert_calls>>

NextMap == MapAdminMsg

SpecMap == Init /\ [][NextMap]_vars

\* ---- properties ----------------------------------------------------------
HasOut(op, text) == \E k \in DOMAIN out : out[k].op = op /\ out[k].text = text

UserRows(i) == {r \in users : r.user_id = i}

MapRows(m) == {r \in admin_map : r.admin_msg_id = m}

SendOps == {"send_message", "forward_message", "copy_message"}

StorageOps == {"upsert_user", "map_admin_msg", "get_user_for_admin_reply", "select_users"}

AdminOps == {"reply_cmd", "users_cmd", "export_users_cmd", "admin_reply_relay"}

\* the access rule as the specification words it
Authorized(u) ==
    \/ ADMIN_USER_IDS # {} /\ u.user.id \in ADMIN_USER_IDS
    \/ ADMIN_USER_IDS = {} /\ u.chat = ADMIN_CHAT_ID

\* C1: once upsert_user has completed for an identifier, the users table
\* holds exactly one row for it, with the first-seen timestamp of the first
\* call and the names and last-seen timestamp of the last call.
UpsertConverges ==
    \A i \in UserIds :
        upsert_calls[i].first_t # None =>
            UserRows(i) =
                {[user_id |-> i,
                  username |-> OrEmpty(upsert_calls[i].last.username),
                  first_name |-> OrEmpty(upsert_calls[i].last.first_name),
                  last_name |-> OrEmpty(upsert_calls[i].last.last_name),
                  first_seen_utc |-> upsert_calls[i].first_t,
                  last_seen_utc |-> upsert_calls[i].last_t]}

\* two calls for one identifier, at different times, have completed
UpsertConvergesWitness ==
    \E i \in UserIds :
        /\ upsert_calls[i].first_t # None
        /\ upsert_calls[i].first_t < upsert_calls[i].last_t
        /\ UserRows(i) # {}

\* C2: user_message_to_admin acknowledges to the user only after it has
\* recorded the user, sent the header (with the user's identifier) and the
\* forwarded copy to the admin chat, and stored one mapping row for each of
\* the two messages, both resolving to the user; a run that ends without an
\* exception has acknowledged.
RelayThenAck ==
    handler = "user_message_to_admin" =>
        /\ (upd.msg /\ ChatType(upd.chat) = "private" /\ ~raised)
               => HasOut("reply_text", "ack")
        /\ \A k \in DOMAIN out :
             out[k].op = "reply_text" =>
               /\ k = 6 /\ out[k].text = "ack" /\ out[k].to = upd.chat
               /\ out[1].op = "upsert_user" /\ out[1].ok
               /\ out[1].ref = upd.user.id /\ UserRows(upd.user.id) # {}
               /\ out[2].op = "send_message" /\ out[2].ok /\ out[2].text = "header"
               /\ out[2].to = ADMIN_CHAT_ID /\ out[2].ref = upd.user.id
               /\ out[3].op = "map_admin_msg" /\ out[3].ok /\ out[3].mid = out[2].mid
               /\ out[4].op = "forward_message" /\ out[4].ok
               /\ out[4].to = ADMIN_CHAT_ID /\ out[4].ref = upd.chat
               /\ out[5].op = "map_admin_msg" /\ out[5].ok /\ out[5].mid = out[4].mid
               /\ out[2].mid # out[4].mid
               /\ Cardinality(MapRows(out[2].mid)) = 1
               /\ Cardinality(MapRows(out[4].mid)) = 1
               /\ get_user_for_admin_reply(out[2].mid) = upd.user.id
               /\ get_user_for_admin_reply(out[4].mid) = upd.user.id

\* a private message has been relayed and acknowledged
RelayThenAckWitness ==
    /\ handler = "user_message_to_admin"
    /\ ~raised
    /\ Len(out) = 6
    /\ out[6].text = "ack" /\ out[6].ok
    /\ Cardinality(admin_map) = 2

\* the lookup of admin_reply_relay returned for an authorized reply
RelayLookedUp ==
    /\ handler = "admin_reply_relay"
    /\ upd.msg
    /\ Authorized(upd)
    /\ Len(out) >= 1 /\ out[1].ok

\* C3: an authorized admin's reply to a relayed header or forwarded copy is
\* copied to the originating user's private chat and to nobody else.
ReplyReachesUser ==
    RelayLookedUp =>
        \A r \in MapRows(upd.reply_to) :
            /\ \E k \in DOMAIN out : out[k].op = "copy_message" /\ out[k].to = r.user_id
            /\ \A k \in DOMAIN out : out[k].op \in SendOps => out[k].to = r.user_id

\* what admin_reply_relay answers with and without a mapping
RoutingOutcome ==
    RelayLookedUp =>
        IF MapRows(upd.reply_to) = {}
        THEN /\ \A k \in DOMAIN out : out[k].op \notin SendOps
             /\ HasOut("reply_text", "miss")
        ELSE /\ \E k \in DOMAIN out : out[k].op = "copy_message"
             /\ ~HasOut("reply_text", "miss")

\* C4: without a mapping admin_reply_relay sends nothing to a user, tells the
\* admin that the reply cannot be routed and leaves both tables unchanged;
\* with a mapping, whatever the stored user identifier, the reply is routed
\* and no routing-miss notice is sent.
RoutingMissIsNormal ==
    [][ now' # now =>
          /\ RoutingOutcome'
          /\ handler' = "admin_reply_relay" => UNCHANGED tables ]_vars

\* C5: is_admin holds exactly when an allow-list is configured and holds the
\* actor, or none is configured and the update comes from the admin chat; an
\* admin command in the admin chat gets the "admin only" notice exactly when
\* its sender is not authorized in that sense.
IsAdminMatchesPolicy ==
    /\ \A s \in Senders, c \in ChatIds :
         is_admin(Update("users", s, c, TRUE, NoReply, <<>>))
             <=> Authorized(Update("users", s, c, TRUE, NoReply, <<>>))
    /\ (/\ handler \in {"reply_cmd", "users_cmd", "export_users_cmd"}
        /\ upd.chat = ADMIN_CHAT_ID
        /\ upd.msg)
           => (HasOut("reply_text", "admin_only") <=> ~Authorized(upd))

\* an allow-listed admin got the users list
IsAdminMatchesPolicyWitness ==
    /\ handler = "users_cmd"
    /\ ADMIN_USER_IDS # {}
    /\ upd.user.id \in ADMIN_USER_IDS
    /\ HasOut("reply_text", "users_list")

\* C6: an admin-only operation run for an actor who is not an authorized
\* admin makes no call but the fixed "admin only" notice: it reads no table,
\* sends no document and sends, forwards or copies nothing.
UnauthorizedGetsNothing ==
    (handler \in AdminOps /\ ~Authorized(upd)) =>
        \A k \in DOMAIN out : out[k].op = "reply_text" /\ out[k].text = "admin_only"

\* /users from somebody who is not an admin, in the admin chat, with users stored
UnauthorizedGetsNothingWitness ==
    /\ handler = "users_cmd"
    /\ ~Authorized(upd)
    /\ upd.chat = ADMIN_CHAT_ID
    /\ users # {}
    /\ HasOut("reply_text", "admin_only")

\* an admin command of somebody who is not an authorized admin, sent as an
\* ordinary (not edited) message
UnauthorizedCommand ==
    /\ handler \in {"reply_cmd", "users_cmd", "export_users_cmd"}
    /\ upd.msg
    /\ ~Authorized(upd)

ResponseKind ==
    IF HasOut("reply_text", "admin_only") THEN "notice"
    ELSE IF out = <<>> THEN "silent"
    ELSE "other"

\* C7: two unauthorized invocations of the same admin command get the same
\* kind of response, whatever their chats.
ConsistentRejection ==
    [][ (UnauthorizedCommand /\ UnauthorizedCommand' /\ handler' = handler)
            => ResponseKind' = ResponseKind ]_vars

\* C8: an authorized /reply answers with usage help and sends nothing when
\* its first argument is not a non-negative integer or no text follows;
\* otherwise it sends the text once to that user, without touching the relay
\* map, and reports success exactly when the send succeeded.
ReplyCmdContract ==
    (handler = "reply_cmd" /\ upd.msg /\ upd.chat = ADMIN_CHAT_ID /\ Authorized(upd)) =>
        LET sends == {k \in DOMAIN out : out[k].op \in SendOps}
        IN IF ~(Len(upd.args) >= 2 /\ IsDecimal(upd.args[1]))
           THEN /\ sends = {}
                /\ HasOut("reply_text", "usage") \/ HasOut("reply_text", "numeric")
           ELSE /\ Cardinality(sends) = 1
                /\ \A k \in sends :
                     /\ out[k].op = "send_message"
                     /\ out[k].to = int(upd.args[1])
                     /\ out[k].text = join(Tail(upd.args))
                     /\ out[k].ok =>
                          HasOut("reply_text", "sent") /\ ~HasOut("reply_text", "failed")
                     /\ ~out[k].ok =>
                          HasOut("reply_text", "failed") /\ ~HasOut("reply_text", "sent")
                /\ \A k \in DOMAIN out : out[k].op \notin StorageOps

\* C9: a failed storage call is caught in the handler, which tells the
\* requester and lets no exception out.
StorageFailureReported ==
    \A k \in DOMAIN out :
        (upd.msg /\ out[k].op \in StorageOps /\ ~out[k].ok) =>
            /\ ~raised
            /\ \E j \in DOMAIN out : j > k /\ out[j].op = "reply_text" /\ out[j].ok

\* C10: a rejected send, forward or copy is not retried, the initiating
\* admin or user is told by a text reply, and no exception leaves the handler.
DeliveryFailureReported ==
    \A k \in DOMAIN out :
        (upd.msg /\ out[k].op \in SendOps /\ ~out[k].ok) =>
            /\ ~raised
            /\ \E j \in DOMAIN out : j > k /\ out[j].op = "reply_text" /\ out[j].ok
            /\ \A j \in DOMAIN out : j > k => out[j].op # out[k].op
\* the handler the priority rule names for an update
Priority(u) ==
    CASE u.cmd = "start" -> "start"
      [] u.cmd = "help" -> "help_cmd"
      [] u.cmd = "reply" -> "reply_cmd"
      [] u.cmd = "users" -> "users_cmd"
      [] u.cmd = "export_users" -> "export_users_cmd"
      [] OTHER ->
           IF u.reply_to # NoReply /\ u.chat = ADMIN_CHAT_ID
           THEN "admin_reply_relay"
           ELSE IF u.cmd = "none" /\ ChatType(u.chat) = "private"
           THEN "user_message_to_admin"
           ELSE "none"

\* C11: every update is handled by the one handler the priority rule names
\* (command handlers, then admin_reply_relay, then user_message_to_admin);
\* an update no rule matches runs nothing and changes no state; a reply in a
\* private admin chat goes to admin_reply_relay
DispatchByPriority ==
    [][ now' # now =>
          /\ handler' = Priority(upd')
          /\ handler' = "none" =>
                /\ out' = <<>>
                /\ UNCHANGED <<users, admin_map, next_msg_id>> ]_vars

DispatchByPriorityWitness ==
    /\ handler = "admin_reply_relay"
    /\ upd.cmd = "none"
    /\ ChatType(upd.chat) = "private"
    /\ Len(out) > 0

\* reading a comma-separated text back: a character is inside a quoted cell
\* when an odd number of quotes precedes it; records end at line breaks and
\* cells at commas outside quoted cells; a quoted cell loses its enclosing
\* quotes and the first quote of every doubled one
Pick(text, keep) ==
    [i \in 1..Cardinality(keep) |->
        text[CHOOSE j \in keep : Cardinality({x \in keep : x <= j}) = i]]

QuotesIn(text, a, b) == Cardinality({j \in a..b : text[j] = "\""})

Outside(text, k) == QuotesIn(text, 1, k - 1) % 2 = 0

\* the pieces of text[a..b] between the separators at the positions seps
Pieces(a, b, seps) ==
    LET cuts == {a - 1} \cup {k \in seps : a <= k /\ k <= b} \cup {b + 1}
        starts == cuts \ {b + 1}
    IN [i \in 1..Cardinality(starts) |->
           LET lo == CHOOSE j \in starts : Cardinality({x \in starts : x <= j}) = i
               hi == CHOOSE j \in cuts : j > lo /\ \A x \in cuts : x > lo => j <= x
           IN <<lo + 1, hi - 1>>]

Unquote(text, a, b) ==
    IF a <= b /\ text[a] = "\""
    THEN Pick(text, {j \in (a + 1)..b :
                        text[j] # "\"" \/ QuotesIn(text, a + 1, j) % 2 = 0})
    ELSE Pick(text, a..b)

ParseCsv(text) ==
    LET breaks == {k \in DOMAIN text : text[k] \in {"\r", "\n"} /\ Outside(text, k)}
        commas == {k \in DOMAIN text : text[k] = "," /\ Outside(text, k)}
        lines == Pieces(1, Len(text), breaks)
        records == SelectSeq(lines, LAMBDA l : l[1] <= l[2])
    IN [r \in DOMAIN records |->
           LET cells == Pieces(records[r][1], records[r][2], commas)
           IN [c \in DOMAIN cells |-> Unquote(text, cells[c][1], cells[c][2])]]

\* the attachment the last handler delivered, read back
Delivered == \E k \in DOMAIN out : out[k].op = "reply_document" /\ out[k].ok

Exported == ParseCsv(document)

ExportedUsers == [k \in 1..(Len(Exported) - 1) |-> Exported[k + 1]]

ClaimedHeaderRow ==
    <<Chars("user_id"), Chars("username"), Chars("first_name"),
      Chars("last_name"), Chars("first_seen"), Chars("last_seen")>>

\* the rows after the header are the stored users, one row each, by
\* ascending first-seen timestamp
ExportedRowsInOrder ==
    /\ Len(ExportedUsers) = Cardinality(users)
    /\ \A r \in users : \E k \in DOMAIN ExportedUsers : ExportedUsers[k] = Cells(r)
    /\ \A j \in DOMAIN ExportedUsers : \A k \in DOMAIN ExportedUsers :
          \A r \in users : \A q \in users :
             (j < k /\ ExportedUsers[j] = Cells(r) /\ ExportedUsers[k] = Cells(q))
                => r.first_seen_utc <= q.first_seen_utc

\* an authorized admin's export in the admin chat whose read and send succeed
ExportSucceeds ==
    /\ handler = "export_users_cmd"
    /\ upd.chat = ADMIN_CHAT_ID
    /\ Authorized(upd)
    /\ upd.msg
    /\ \A k \in DOMAIN out : out[k].ok

StoredTuples ==
    { <<r.user_id, Chars(r.username), Chars(r.first_name), Chars(r.last_name)>> :
        r \in users }

\* int() of an exported identifier
IntOf(cell) ==
    IF \E i \in 0..9 : str(i) = cell THEN CHOOSE i \in 0..9 : str(i) = cell ELSE None

ExportedTuples ==
    { <<IntOf(ExportedUsers[k][1]), ExportedUsers[k][2], ExportedUsers[k][3],
        ExportedUsers[k][4]>> : k \in DOMAIN ExportedUsers }

\* C13: reading the exported table back yields exactly the stored
\* (identifier, username, first name, last name) tuples, also when a name
\* holds a comma, a quote or a line break
ExportRoundTrip ==
    Delivered =>
        /\ \A k \in DOMAIN ExportedUsers : Len(ExportedUsers[k]) >= 4
        /\ ExportedTuples = StoredTuples

ExportRoundTripWitness ==
    /\ Delivered
    /\ \E r \in users : r.username = "a,b"
    /\ \E r \in users : r.last_name = "x\ny" /\ r.first_name = "\r"

\* the user passed by the last map_admin_msg call for message m
LastMapped(m) == map_calls[m][Len(map_calls[m])]

\* C14: after map_admin_msg(m, u) the lookup of m returns u, whatever m was
\* mapped to before, admin_map holds exactly one row for m, and the rows of
\* every other message are unchanged
LastWriterWins ==
    [][ \A m \in MsgIds :
          map_calls'[m] # map_calls[m] =>
            /\ get_user_for_admin_reply(m)' = LastMapped(m)'
            /\ Cardinality(MapRows(m)') = 1
            /\ \A o \in MsgIds \ {m} : MapRows(o)' = MapRows(o) ]_vars

LastWriterWinsWitness ==
    \E m \in MsgIds, o \in MsgIds :
        /\ Len(map_calls[m]) = 2
        /\ map_calls[m][1] # map_calls[m][2]
        /\ get_user_for_admin_reply(m) = map_calls[m][2]
        /\ o # m
        /\ MapRows(o) # {}

\* C15: the lookup of a message identifier that was never passed to
\* map_admin_msg returns None, and a handler that looks up changes neither
\* table
UnmappedIsAbsent ==
    [][ /\ \A m \in MsgIds :
              map_calls'[m] = <<>> => get_user_for_admin_reply(m)' = None
        /\ (now' # now /\ handler' = "admin_reply_relay") => UNCHANGED tables ]_vars

UnmappedIsAbsentWitness ==
    /\ RelayLookedUp
    /\ map_calls[upd.reply_to] = <<>>
    /\ admin_map # {}
    /\ HasOut("reply_text", "miss")

\* C16: /start from a user leaves exactly one users row for that user, with
\* the rows of other users as they were, adds no admin_map row, and sends one
\* message only, the welcome reply into the chat of the sender: the admin
\* chat gets no notification
StartFrame ==
    [][ (now' # now /\ handler' = "start") =>
          /\ admin_map' = admin_map
          /\ Len(out') >= 1 /\ out'[1].op = "upsert_user"
          /\ out'[1].ok =>
                /\ Cardinality({r \in users' : r.user_id = upd'.user.id}) = 1
                /\ \A r \in users' : r.user_id = upd'.user.id =>
                      r.last_seen_utc = now
          /\ \A r \in users : r.user_id # upd'.user.id => r \in users'
          /\ \A r \in users' : r.user_id # upd'.user.id => r \in users
          /\ \A k \in 2..Len(out') :
                /\ k = 2
                /\ out'[k].op = "reply_text"
                /\ out'[k].text = "welcome"
                /\ out'[k].to = upd'.chat
          /\ upd'.chat # ADMIN_CHAT_ID =>
                \A k \in DOMAIN out' : out'[k].to # ADMIN_CHAT_ID
          /\ ~raised' => Len(out') = 2 ]_vars

StartFrameWitness ==
    /\ handler = "start"
    /\ ~raised
    /\ upd.chat # ADMIN_CHAT_ID
    /\ HasOut("reply_text", "welcome")
    /\ \E r \in UserRows(upd.user.id) : r.first_seen_utc < r.last_seen_utc

\* C17: when an authorized admin's reply to a header or forwarded copy is
\* handled, the mapping of that message has been written, and the reply
\* never gets the routing-miss notice
MappedReplyNeverMisses ==
    (RelayLookedUp /\ upd.reply_to \in MsgIds) =>
        (map_calls[upd.reply_to] # <<>> => ~HasOut("reply_text", "miss"))

\* C18: every admin_map row refers to a user that has a users row, also
\* after user_message_to_admin was ended midway by a rejected call
MapRefersToUser ==
    \A r \in admin_map : \E q \in users : q.user_id = r.user_id

MapRefersToUserWitness ==
    /\ handler = "user_message_to_admin"
    /\ raised
    /\ Cardinality(admin_map) = 1
    /\ \E k \in DOMAIN out : out[k].op = "forward_message" /\ ~out[k].ok

\* the handlers that only read
ReadOnly == {"help_cmd", "reply_cmd", "users_cmd", "export_users_cmd", "admin_reply_relay"}

\* C19: help_cmd, reply_cmd, users_cmd, export_users_cmd and
\* admin_reply_relay change neither table, start does not change admin_map,
\* and no step removes the users row of a user or the admin_map row of a
\* message
OnlyWritersWrite ==
    [][ /\ handler' \in ReadOnly => UNCHANGED tables
        /\ handler' # "user_message_to_admin" => admin_map' = admin_map
        /\ handler' \notin {"start", "user_message_to_admin"} => users' = users
        /\ \A r \in users : \E q \in users' : q.user_id = r.user_id
        /\ \A r \in admin_map : \E q \in admin_map' : q.admin_msg_id = r.admin_msg_id
      ]_vars

OnlyWritersWriteWitness ==
    /\ handler \in ReadOnly
    /\ Len(out) > 0
    /\ users # {}
    /\ admin_map # {}

\* C20: every users row has first-seen <= last-seen; across every step the
\* first-seen timestamp of a row stays as written and its last-seen
\* timestamp does not decrease
SeenTimestampsOrdered ==
    [][ /\ \A q \in users' : q.first_seen_utc <= q.last_seen_utc
        /\ \A r \in users : \A q \in users' :
              q.user_id = r.user_id =>
                 /\ q.first_seen_utc = r.first_seen_utc
                 /\ q.last_seen_utc >= r.last_seen_utc ]_vars

SeenTimestampsOrderedWitness ==
    /\ handler = "user_message_to_admin"
    /\ \E r \in UserRows(upd.user.id) :
          r.first_seen_utc < r.last_seen_utc /\ r.last_seen_utc = now - 1

====
